---- MODULE Spec2Model ----
(***************************************************************************)
(* Cryptool: generic group arithmetic (cryptool/group.py), its discrete-   *)
(* logarithm routines, the elliptic-curve group with ECDSA, and the        *)
(* modular-arithmetic helpers of cryptool/utils.py they call.              *)
(***************************************************************************)
EXTENDS Integers, Sequences, FiniteSets, TLC

VARIABLES inst, dl, bs, call, ev, ecdsa

vars == <<inst, dl, bs, call, ev, ecdsa>>

(***************************************************************************)
(* Bounds of the model.                                                    *)
(***************************************************************************)
\* largest modulus p of the enumerated scalar groups
MaxP == 11
\* iterations of a non-terminating DLnaive loop explored beyond p
MaxExtra == 2
\* a threshold below the enumerated orders, so that calculDL takes both branches
SmallThreshold == 4
\* largest modulus p of the groups pohligHellman is run on
MaxPHP == 19
\* message hashes 0..MaxHash handed to ECDSA
MaxHash == 3
\* exponents -1..MaxExp handed to exp, besides the group's order
MaxExp == 12
\* largest modulus handed to inverse and chineseRemainder
MaxMod == 5
\* remainders -1..MaxRem handed to chineseRemainder
MaxRem == 2
\* longest list handed to chineseRemainder
MaxLen == 3

(***************************************************************************)
(* Python values that are not group elements.                              *)
(***************************************************************************)
\* ValueError: pow(x, -1, n) of a non-unit, math.log of a negative number
ValueError == -1
\* the None that ShanksAlgorithm returns when its table never matches
NoneVal == -2
\* TypeError: arithmetic on None, list % int, indexing a non-sequence
TypeError == -3
\* ZeroDivisionError: x % 0, x // 0
ZeroDivisionError == -4
\* an exception leaving a routine whose results are points
RaisePt == <<ValueError>>

\* default of calculDL's parameter t
DefaultThreshold == 1000

(***************************************************************************)
(* Integer helpers: Python builtins and math functions.                    *)
(***************************************************************************)
RECURSIVE PyPow(_, _, _)
\* pow(b, e, m) with e >= 0
PyPow(b, e, m) ==
    IF e = 0 THEN 1 % m
    ELSE IF e % 2 = 0 THEN PyPow((b * b) % m, e \div 2, m)
    ELSE (b * PyPow((b * b) % m, e \div 2, m)) % m

\* pow(a, -1, n): the inverse of a modulo n, ValueError when there is none
PyPowInv(a, n) ==
    IF \E y \in 0..(n - 1) : (a * y) % n = 1 % n
    THEN CHOOSE y \in 0..(n - 1) : (a * y) % n = 1 % n
    ELSE ValueError

RECURSIVE IPow(_, _)
\* pow(b, e) on integers
IPow(b, e) == IF e = 0 THEN 1 ELSE b * IPow(b, e - 1)

RECURSIVE CeilSqrtFrom(_, _)
CeilSqrtFrom(n, w) == IF w * w >= n THEN w ELSE CeilSqrtFrom(n, w + 1)

\* ceil(sqrt(n))
CeilSqrt(n) == CeilSqrtFrom(n, 0)

RECURSIVE Log2Floor_short(_)
\* a logarithm two short from k = 4 on, as with t = int(log(k, 2)) - 1
Log2Floor_short(k) == IF k < 8 THEN 0 ELSE 1 + Log2Floor_short(k \div 2)

RECURSIVE Log2Floor(_)
\* int(log(k, 2)) for k >= 1
Log2Floor(k) == IF k < 2 THEN 0 ELSE 1 + Log2Floor(k \div 2)

\* (k >> i) & 1
Bit(k, i) == (k \div IPow(2, i)) % 2

IsPrime(n) == n >= 2 /\ \A d \in 2..(n - 1) : n % d # 0

(***************************************************************************)
(* The concrete groups: the fields their constructors set.                 *)
(***************************************************************************)
ZpAdd(p) == [kind |-> "ZpAdd", p |-> p, N |-> p, e |-> 0]

ZpMult(p) == [kind |-> "ZpMult", p |-> p, N |-> p - 1, e |-> 1]

ZpMulWithOrder(p, N) == [kind |-> "ZpMulWithOrder", p |-> p, N |-> N, e |-> 1]

ECConZp(A, B, G, p, N, e) ==
    [kind |-> "ECConZp", p |-> p, N |-> N, e |-> e, A |-> A, B |-> B, G |-> G]

IsEC(G) == G.kind = "ECConZp"

\* the value standing for an exception that leaves a routine of group G
Raised(G) == IF IsEC(G) THEN RaisePt ELSE ValueError

ZpAdd_loi(G, g1, g2) == (g1 + g2) % G.p

ZpMult_loi(G, g1, g2) == (g1 * g2) % G.p

ZpMult_inv(G, g) == PyPowInv(g, G.p)

\* point addition comparing P[1] with -Q[1] where the code has -Q[1] % p
ECConZp_loi_unreduced(G, P, Q) ==
    IF P = RaisePt \/ Q = RaisePt THEN RaisePt
    ELSE IF P = G.e THEN Q
    ELSE IF Q = G.e THEN P
    ELSE IF P[1] = Q[1]
         THEN IF P[2] = -Q[2]
              THEN G.e
              ELSE LET x == P[1]
                       y == P[2]
                       i == PyPowInv(2 * y, G.p)
                       Lambda == ((3 * x * x + G.A) * i) % G.p
                       x3 == (Lambda * Lambda - 2 * x) % G.p
                       y3 == (Lambda * (x - x3) - y) % G.p
                   IN  IF i = ValueError THEN RaisePt ELSE <<x3, y3>>
         ELSE LET x1 == P[1]
                  y1 == P[2]
                  x2 == Q[1]
                  y2 == Q[2]
                  i == PyPowInv(x2 - x1, G.p)
                  Lambda == ((y2 - y1) * i) % G.p
                  x3 == (Lambda * Lambda - x1 - x2) % G.p
                  y3 == (Lambda * (x1 - x3) - y1) % G.p
              IN  IF i = ValueError THEN RaisePt ELSE <<x3, y3>>

\* point addition with the tangent slope 3x^2 / 2y, without the curve's A
ECConZp_loi_tangentWithoutA(G, P, Q) ==
    IF P = RaisePt \/ Q = RaisePt THEN RaisePt
    ELSE IF P = G.e THEN Q
    ELSE IF Q = G.e THEN P
    ELSE IF P[1] = Q[1]
         THEN IF P[2] = (-Q[2]) % G.p
              THEN G.e
              ELSE LET x == P[1]
                       y == P[2]
                       i == PyPowInv(2 * y, G.p)
                       Lambda == ((3 * x * x) * i) % G.p
                       x3 == (Lambda * Lambda - 2 * x) % G.p
                       y3 == (Lambda * (x - x3) - y) % G.p
                   IN  IF i = ValueError THEN RaisePt ELSE <<x3, y3>>
         ELSE LET x1 == P[1]
                  y1 == P[2]
                  x2 == Q[1]
                  y2 == Q[2]
                  i == PyPowInv(x2 - x1, G.p)
                  Lambda == ((y2 - y1) * i) % G.p
                  x3 == (Lambda * Lambda - x1 - x2) % G.p
                  y3 == (Lambda * (x1 - x3) - y1) % G.p
              IN  IF i = ValueError THEN RaisePt ELSE <<x3, y3>>

\* point addition; a failing pow(.., -1, p) leaves it as an exception
ECConZp_loi(G, P, Q) ==
    IF P = RaisePt \/ Q = RaisePt THEN RaisePt
    ELSE IF P = G.e THEN Q
    ELSE IF Q = G.e THEN P
    ELSE IF P[1] = Q[1]
         THEN IF P[2] = (-Q[2]) % G.p
              THEN G.e
              ELSE LET x == P[1]
                       y == P[2]
                       i == PyPowInv(2 * y, G.p)
                       Lambda == ((3 * x * x + G.A) * i) % G.p
                       x3 == (Lambda * Lambda - 2 * x) % G.p
                       y3 == (Lambda * (x - x3) - y) % G.p
                   IN  IF i = ValueError THEN RaisePt ELSE <<x3, y3>>
         ELSE LET x1 == P[1]
                  y1 == P[2]
                  x2 == Q[1]
                  y2 == Q[2]
                  i == PyPowInv(x2 - x1, G.p)
                  Lambda == ((y2 - y1) * i) % G.p
                  x3 == (Lambda * Lambda - x1 - x2) % G.p
                  y3 == (Lambda * (x1 - x3) - y1) % G.p
              IN  IF i = ValueError THEN RaisePt ELSE <<x3, y3>>

\* self.loi: the operation of the group's class
loi(G, g1, g2) ==
    CASE G.kind = "ZpAdd" -> ZpAdd_loi(G, g1, g2)
      [] G.kind = "ECConZp" -> ECConZp_loi(G, g1, g2)
      [] OTHER -> ZpMult_loi(G, g1, g2)

RECURSIVE ExpLoop_stopAtOne(_, _, _, _, _)
\* the loop with range(t, 0, -1): bit 0 of k is never read
ExpLoop_stopAtOne(G, g, k, i, h) ==
    IF i < 1 THEN h
    ELSE LET h2 == loi(G, h, h)
             h3 == IF Bit(k, i) = 1 THEN loi(G, h2, g) ELSE h2
         IN  ExpLoop_stopAtOne(G, g, k, i - 1, h3)

RECURSIVE ExpLoop(_, _, _, _, _)
\* for i in range(t, -1, -1): h = loi(h, h); if (k >> i) & 1 == 1: h = loi(h, g)
ExpLoop(G, g, k, i, h) ==
    IF i < 0 THEN h
    ELSE LET h2 == loi(G, h, h)
             h3 == IF Bit(k, i) = 1 THEN loi(G, h2, g) ELSE h2
         IN  ExpLoop(G, g, k, i - 1, h3)

RECURSIVE Group_exp(_, _, _)
\* Group.exp
Group_exp(G, g, k) ==
    IF k = -1 THEN Group_exp(G, g, G.N - 1)
    ELSE IF k = 0 THEN G.e
    ELSE IF k < 0 THEN Raised(G)
    ELSE ExpLoop(G, g, k, Log2Floor(k) + 1, G.e)

RECURSIVE ECConZp_exp(_, _, _)
\* ECConZp.exp
ECConZp_exp(G, P, k) ==
    IF k = -1 THEN ECConZp_exp(G, P, G.N - 1)
    ELSE IF k = 0 THEN G.e
    ELSE IF k < 0 THEN RaisePt
    ELSE ExpLoop(G, P, k, Log2Floor(k) + 1, G.e)

\* self.exp: the method of the group's class
exp(G, g, k) == IF IsEC(G) THEN ECConZp_exp(G, g, k) ELSE Group_exp(G, g, k)

\* ECConZp.verify
ECConZp_verify(G, P) ==
    IF P = G.e THEN TRUE
    ELSE LET leftSideEquation == PyPow(P[2], 2, G.p)
             rightSideEquation == (PyPow(P[1], 3, G.p) + G.A * P[1] + G.B) % G.p
         IN  leftSideEquation = rightSideEquation

(***************************************************************************)
(* Reference notions the properties are stated with: the k-fold product,   *)
(* the subgroup an element generates, and its order.                       *)
(***************************************************************************)
RECURSIVE RefPow(_, _, _)
RefPow(G, g, k) == IF k = 0 THEN G.e ELSE loi(G, RefPow(G, g, k - 1), g)

RECURSIVE GenFrom(_, _, _, _)
GenFrom(G, g, x, acc) ==
    IF x \in acc THEN acc ELSE GenFrom(G, g, loi(G, x, g), acc \cup {x})

\* the elements e, g, g^2, ... that g generates: the multiples of g modulo p,
\* the powers of g modulo p, the points reached from e by adding g
Generated(G, g) ==
    CASE G.kind = "ZpAdd" -> {(k * g) % G.p : k \in 0..(G.p - 1)}
      [] G.kind = "ECConZp" -> GenFrom(G, g, G.e, {})
      [] OTHER -> {PyPow(g, k, G.p) : k \in 0..(G.p - 1)}

\* the order of g: the number of elements it generates
OrderOf(G, g) == Cardinality(Generated(G, g))

(***************************************************************************)
(* The curves and the groups the model runs the routines on.               *)
(***************************************************************************)
\* y^2 = x^3 + 2x + 2 over F_17: 19 points, generator (5, 1)
Curve17 == ECConZp(2, 2, <<5, 1>>, 17, 19, <<0, 0>>)

\* y^2 = x^3 + 7x + 6 over F_13: 11 points, generator (1, 1)
Curve13 == ECConZp(7, 6, <<1, 1>>, 13, 11, <<0, 0>>)

\* y^2 = x^3 + 1 over F_7: 12 points, three of them of order 2
Curve7 == ECConZp(0, 1, <<1, 3>>, 7, 12, <<0, 0>>)

\* y^2 = x^3 + 1 over F_5: 6 points, cyclic, generator (2, 2)
Curve5 == ECConZp(0, 1, <<2, 2>>, 5, 6, <<0, 0>>)

\* the points of a curve: the identity and the reduced pairs on it
PointsOf(G) ==
    {G.e} \cup {P \in (0..(G.p - 1)) \X (0..(G.p - 1)) : ECConZp_verify(G, P)}

Primes(n) == {p \in 2..n : IsPrime(p)}

Divisors(n) == {d \in 1..n : n % d = 0}

ScalarGroups ==
    {ZpAdd(p) : p \in 2..MaxP}
    \cup {ZpMult(p) : p \in Primes(MaxP)}
    \cup UNION {{ZpMulWithOrder(p, N) : N \in Divisors(p - 1)} : p \in Primes(MaxP)}

\* the elements a caller hands to a group's routines
ElementsOf(G) ==
    CASE G.kind = "ZpAdd" -> 0..(G.p - 1)
      [] G.kind = "ECConZp" -> PointsOf(G)
      [] OTHER -> 1..(G.p - 1)

\* the demonstration of main.py: ZpMult(809), g = 3, h = 525
DemoInstance == [grp |-> ZpMult(809), g |-> 3, h |-> 525]

\* the curves the discrete-logarithm routines are run on
DLCurves == {Curve5, Curve13}

\* g and h range over the elements of the group
InstancesOf(G) == {[grp |-> G, g |-> a, h |-> b] : a \in ElementsOf(G), b \in ElementsOf(G)}

(***************************************************************************)
(* The discrete-logarithm routines, one step per loop iteration.           *)
(***************************************************************************)
IdleDL == [pc |-> "idle", x |-> 0, k |-> 0]

IdleBS == [pc |-> "idle", w |-> 0, tabI |-> <<>>, j |-> 0, ret |-> 0]

NoCall == [op |-> "none", t |-> 0, via |-> "none"]

NoEv == [op |-> "none"]

NoEcdsa == [pc |-> "idle"]

Running == dl.pc = "loop" \/ bs.pc = "loop"

\* DLnaive up to its while: x, k = self.e, 0
DLnaive_enter == [pc |-> "loop", x |-> inst.grp.e, k |-> 0]

\* babyStepGiantStep up to its while: w, tabI, j = 0
babyStepGiantStep_enter ==
    LET w == CeilSqrt(inst.grp.N)
    IN  [pc |-> "loop", w |-> w,
         tabI |-> [i \in 1..(w + 1) |-> exp(inst.grp, inst.g, (i - 1) * w)],
         j |-> 0, ret |-> 0]

\* calculDL comparing with <= where the code has <
calculDL_branch_inclusive(N, t) == IF N <= t THEN "DLnaive" ELSE "babyStepGiantStep"

\* the branch calculDL takes
calculDL_branch(N, t) == IF N < t THEN "DLnaive" ELSE "babyStepGiantStep"

CallDLnaive ==
    /\ ~Running
    /\ dl' = DLnaive_enter
    /\ call' = [op |-> "DLnaive", t |-> 0, via |-> "DLnaive"]
    /\ UNCHANGED <<inst, bs, ev, ecdsa>>

CallBabyStepGiantStep ==
    /\ ~Running
    /\ bs' = babyStepGiantStep_enter
    /\ call' = [op |-> "babyStepGiantStep", t |-> 0, via |-> "babyStepGiantStep"]
    /\ UNCHANGED <<inst, dl, ev, ecdsa>>

CallCalculDL ==
    /\ ~Running
    /\ \E t \in {SmallThreshold, DefaultThreshold} :
         LET via == calculDL_branch(inst.grp.N, t)
         IN  /\ call' = [op |-> "calculDL", t |-> t, via |-> via]
             /\ IF via = "DLnaive"
                THEN dl' = DLnaive_enter /\ bs' = bs
                ELSE bs' = babyStepGiantStep_enter /\ dl' = dl
    /\ UNCHANGED <<inst, ev, ecdsa>>

\* the test of DLnaive's while and one pass of its body
DLnaive_step(G, g, h, f) ==
    IF f.x = h THEN [f EXCEPT !.pc = "return"]
    ELSE IF IsEC(G) THEN [f EXCEPT !.pc = "raise"]
    ELSE [f EXCEPT !.x = loi(G, f.x, g) % G.p, !.k = f.k + 1]

DLnaiveStep ==
    /\ dl.pc = "loop"
    /\ dl.x = inst.h \/ dl.k < inst.grp.p + MaxExtra
    /\ dl' = DLnaive_step(inst.grp, inst.g, inst.h, dl)
    /\ UNCHANGED <<inst, bs, call, ev, ecdsa>>

\* list.index: the first position of x in tabI, counted from 0
IndexOf(tabI, x) == (CHOOSE i \in 1..Len(tabI) :
                        tabI[i] = x /\ \A m \in 1..(i - 1) : tabI[m] # x) - 1

InTab(tabI, x) == \E i \in 1..Len(tabI) : tabI[i] = x

\* babyStepGiantStep stepping forward, with exp(g, j) where the code has exp(g, N - j)
babyStepGiantStep_step_forward(G, g, h, f) ==
    IF G.N - f.j < -1 THEN [f EXCEPT !.pc = "raise"]
    ELSE LET x == loi(G, h, exp(G, g, f.j))
         IN  IF \E i \in 1..Len(f.tabI) : f.tabI[i] = x
             THEN [f EXCEPT !.pc = "return",
                            !.ret = f.w * ((CHOOSE i \in 1..Len(f.tabI) : f.tabI[i] = x) - 1) + f.j]
             ELSE [f EXCEPT !.j = f.j + 1]

\* the test of babyStepGiantStep's while, one pass of its body, and its return
babyStepGiantStep_step(G, g, h, f) ==
    IF G.N - f.j < -1 THEN [f EXCEPT !.pc = "raise"]
    ELSE LET x == loi(G, h, exp(G, g, G.N - f.j))
         IN  IF InTab(f.tabI, x)
             THEN [f EXCEPT !.pc = "return", !.ret = f.w * IndexOf(f.tabI, x) + f.j]
             ELSE [f EXCEPT !.j = f.j + 1]

BabyStepGiantStepStep ==
    /\ bs.pc = "loop"
    /\ bs' = babyStepGiantStep_step(inst.grp, inst.g, inst.h, bs)
    /\ UNCHANGED <<inst, dl, call, ev, ecdsa>>

Init ==
    /\ \/ \E G \in ScalarGroups : inst \in InstancesOf(G)
       \/ \E G \in DLCurves : inst \in InstancesOf(G)
       \/ inst = DemoInstance
    /\ dl = IdleDL
    /\ bs = IdleBS
    /\ call = NoCall
    /\ ev = NoEv
    /\ ecdsa = NoEcdsa

Next ==
    \/ CallDLnaive
    \/ CallBabyStepGiantStep
    \/ CallCalculDL
    \/ DLnaiveStep
    \/ BabyStepGiantStepStep

Spec == Init /\ [][Next]_vars

(***************************************************************************)
(* Properties of the discrete-logarithm routines.                          *)
(***************************************************************************)
\* h lies in the cyclic subgroup generated by g
InSubgroup == inst.h \in Generated(inst.grp, inst.g)

\* g has order exactly N
HasOrderN == OrderOf(inst.grp, inst.g) = inst.grp.N

\* what calculDL returns once the routine it dispatched to has returned
calculDL_returned ==
    /\ call.op = "calculDL"
    /\ IF call.via = "DLnaive" THEN dl.pc = "return" ELSE bs.pc = "return"

calculDL_ret == IF call.via = "DLnaive" THEN dl.k ELSE bs.ret

\* C5: when h is not in the subgroup generated by g, DLnaive stops once its
\* N candidates are exhausted and babyStepGiantStep ends, each with a NotFound
\* outcome (stated as the claim has it; the routines have no such outcome).
C5_NotFoundSignalled ==
    (dl.pc # "idle" \/ bs.pc # "idle") =>
      (~InSubgroup =>
         /\ (dl.pc # "idle" /\ dl.k > inst.grp.N) => dl.pc = "notfound"
         /\ bs.pc \notin {"idle", "loop"} => bs.pc = "notfound")

\* C6: in a ZpAdd or ZpMult group of order N below the threshold, for g of
\* order N and h generated by g, DLnaive and babyStepGiantStep return the
\* same integer.
C6_NaiveAndBSGSAgree ==
    (/\ dl.pc = "return"
     /\ bs.pc = "return"
     /\ inst.grp.kind \in {"ZpAdd", "ZpMult"}
     /\ inst.grp.N < DefaultThreshold
     /\ HasOrderN
     /\ InSubgroup)
    => dl.k = bs.ret

\* C7: for g of order exactly N and h generated by g, babyStepGiantStep's j
\* never exceeds w, no exponent N - j below 0 is evaluated, the routine does
\* not raise, and the k = w*i + j it returns satisfies exp(g, k) = h.
C7_BSGSWithinWSteps ==
    (bs.pc # "idle" /\ HasOrderN /\ InSubgroup) =>
      /\ bs.j <= bs.w
      /\ inst.grp.N - bs.j >= 0
      /\ bs.pc # "raise"
      /\ bs.pc = "return" =>
           /\ exp(inst.grp, inst.g, bs.ret) = inst.h
           /\ \E i \in 0..bs.w : bs.ret = bs.w * i + bs.j

\* C7 witness: on the curve, a logarithm found after w - 1 giant steps
C7_Witness ==
    /\ bs.pc = "return"
    /\ IsEC(inst.grp)
    /\ HasOrderN
    /\ InSubgroup
    /\ bs.w >= 2
    /\ bs.j = bs.w - 1
    /\ bs.ret >= bs.w

\* the instance is main.py's demonstration
IsDemo ==
    /\ inst.grp.kind = "ZpMult"
    /\ inst.grp.p = 809
    /\ inst.g = 3
    /\ inst.h = 525

\* k is the smallest non-negative exponent with g^k mod p = h
SmallestLog(k) ==
    /\ k >= 0
    /\ PyPow(inst.g, k, inst.grp.p) = inst.h
    /\ \A m \in 0..(k - 1) : PyPow(inst.g, m, inst.grp.p) # inst.h

\* k is the only exponent in [0, N) with g^k mod p = h
UniqueLog(k) ==
    \A m \in 0..(inst.grp.N - 1) : (PyPow(inst.g, m, inst.grp.p) = inst.h) <=> (m = k)

\* C10: on ZpMult(p), calculDL(g, h, t) runs DLnaive when N < t and
\* babyStepGiantStep when N >= t; through DLnaive it returns the smallest
\* k >= 0 with g^k mod p = h, the unique one in [0, N) when g generates the
\* group; for p = 809, g = 3, h = 525 and the default t that is the unique x
\* in [0, 808) with 3^x mod 809 = 525.
C10_CalculDLDispatch ==
    (call.op = "calculDL" /\ inst.grp.kind = "ZpMult") =>
      /\ inst.grp.N < call.t => call.via = "DLnaive"
      /\ inst.grp.N >= call.t => call.via = "babyStepGiantStep"
      /\ (inst.grp.N < call.t /\ calculDL_returned) =>
           /\ SmallestLog(calculDL_ret)
           /\ HasOrderN => (calculDL_ret \in 0..(inst.grp.N - 1) /\ UniqueLog(calculDL_ret))
      /\ (IsDemo /\ call.t = DefaultThreshold /\ calculDL_returned) =>
           /\ calculDL_ret \in 0..807
           /\ PyPow(3, calculDL_ret, 809) = 525
           /\ UniqueLog(calculDL_ret)

\* C10 witness: the demonstration's logarithm, 309, returned through DLnaive
C10_Witness ==
    /\ IsDemo
    /\ call.op = "calculDL"
    /\ call.t = DefaultThreshold
    /\ call.via = "DLnaive"
    /\ dl.pc = "return"
    /\ dl.k = 309
    /\ bs.pc = "idle"


(***************************************************************************)
(* Calls of exp and loi on the concrete groups.                            *)
(***************************************************************************)
Curves == {Curve17, Curve13, Curve7, Curve5}

\* the exponents exp is called with
Exponents(G) == (-1..MaxExp) \cup {G.N}

ExpCallOf(G) ==
    {[op |-> "exp", grp |-> G, g |-> a, k |-> k, res |-> exp(G, a, k)] :
        a \in ElementsOf(G), k \in Exponents(G)}

LoiCallOf(G) ==
    {[op |-> "loi", grp |-> G, P |-> a, Q |-> b, res |-> loi(G, a, b)] :
        a \in ElementsOf(G), b \in ElementsOf(G)}

CallExp ==
    /\ ev.op = "none"
    /\ \/ \E G \in ScalarGroups : ev' \in ExpCallOf(G)
       \/ \E G \in Curves : ev' \in ExpCallOf(G)
    /\ UNCHANGED <<inst, dl, bs, call, ecdsa>>

CallLoi ==
    /\ ev.op = "none"
    /\ \/ \E G \in ScalarGroups : ev' \in LoiCallOf(G)
       \/ \E G \in Curves : ev' \in LoiCallOf(G)
    /\ UNCHANGED <<inst, dl, bs, call, ecdsa>>

InitIdle ==
    /\ inst = [grp |-> ZpAdd(2), g |-> 0, h |-> 0]
    /\ dl = IdleDL
    /\ bs = IdleBS
    /\ call = NoCall
    /\ ev = NoEv
    /\ ecdsa = NoEcdsa

\* the point a call on a curve returned is added to another point of the curve
CallLoiOnResult ==
    /\ ev.op \in {"exp", "loi"}
    /\ IsEC(ev.grp)
    /\ ev.res # RaisePt
    /\ \E b \in PointsOf(ev.grp) :
         ev' = [op |-> "loi", grp |-> ev.grp, P |-> ev.res, Q |-> b,
                res |-> loi(ev.grp, ev.res, b)]
    /\ UNCHANGED <<inst, dl, bs, call, ecdsa>>

NextGroup ==
    \/ CallExp
    \/ CallLoi
    \/ CallLoiOnResult

SpecGroup == InitIdle /\ [][NextGroup]_vars

\* C8: in every concrete group, for g whose order divides N, exp(g, N) is
\* the identity e.
C8_ExpOrderIsIdentity ==
    (/\ ev.op = "exp"
     /\ ev.k = ev.grp.N
     /\ ev.grp.N % OrderOf(ev.grp, ev.g) = 0)
    => ev.res = ev.grp.e

\* C8 witness: on the curve with 12 points, a point of order 6 raised to N = 12
C8_Witness ==
    /\ ev.op = "exp"
    /\ IsEC(ev.grp)
    /\ ev.grp.N = 12
    /\ ev.k = 12
    /\ OrderOf(ev.grp, ev.g) = 6
    /\ ev.res = ev.grp.e

\* -P = [x, (-y) mod p]
Negate(G, P) == <<P[1], (-P[2]) % G.p>>

\* C9: on ECConZp, for on-curve reduced points P and Q (or e):
\* loi(P, e) = P, loi(e, P) = P, loi(P, -P) = e for P other than e (also
\* when y = 0), and loi(P, Q) = loi(Q, P).
C9_PointLaws ==
    (ev.op = "loi" /\ IsEC(ev.grp)) =>
      /\ ev.Q = ev.grp.e => ev.res = ev.P
      /\ ev.P = ev.grp.e => ev.res = ev.Q
      /\ (ev.P # ev.grp.e /\ ev.Q = Negate(ev.grp, ev.P)) => ev.res = ev.grp.e
      /\ ev.res = loi(ev.grp, ev.Q, ev.P)
      /\ ev.res # RaisePt

\* C9 witness: a point of order 2 (y = 0) added to itself gives e
C9_Witness ==
    /\ ev.op = "loi"
    /\ IsEC(ev.grp)
    /\ ev.P # ev.grp.e
    /\ ev.P[2] = 0
    /\ ev.Q = ev.P
    /\ ev.Q = Negate(ev.grp, ev.P)
    /\ ev.res = ev.grp.e

\* C13: for every element g and every k >= 0, exp(g, k) is the k-fold product
\* of g, loi applied to k copies of g starting from e (so exp(g, 0) = e and
\* exp(g, 1) = g), no set bit of k being skipped; exp(g, -1) is exp(g, N-1).
C13_ExpIsKFoldProduct ==
    ev.op = "exp" =>
      /\ ev.k >= 0 => ev.res = RefPow(ev.grp, ev.g, ev.k)
      /\ ev.k = 0 => ev.res = ev.grp.e
      /\ ev.k = 1 => ev.res = ev.g
      /\ ev.k = -1 =>
           /\ ev.res = exp(ev.grp, ev.g, ev.grp.N - 1)
           /\ ev.res = RefPow(ev.grp, ev.g, ev.grp.N - 1)

\* C13 witness: 11 = 1011b times the generator of the curve with 19 points
C13_Witness ==
    /\ ev.op = "exp"
    /\ IsEC(ev.grp)
    /\ ev.grp.N = 19
    /\ ev.g = ev.grp.G
    /\ ev.k = 11
    /\ ev.res # ev.grp.e
    /\ ev.res # ev.g
    /\ ev.res = RefPow(ev.grp, ev.g, 11)

\* P is e, or has both coordinates in [0, p-1] and verify(P) returns True
OnCurve(G, P) ==
    \/ P = G.e
    \/ /\ P # RaisePt
       /\ P[1] \in 0..(G.p - 1)
       /\ P[2] \in 0..(G.p - 1)
       /\ ECConZp_verify(G, P)

\* C15: on a non-singular curve over a prime p, for P and Q that are e or
\* reduced points verify accepts, loi(P, Q) inverts no 0 modulo p and
\* verify accepts its result; so do the results of exp on such points, and
\* of loi applied to those results.
C15_CurveClosed ==
    /\ (ev.op = "loi" /\ IsEC(ev.grp)) =>
         ((OnCurve(ev.grp, ev.P) /\ OnCurve(ev.grp, ev.Q)) =>
            (ev.res # RaisePt /\ OnCurve(ev.grp, ev.res)))
    /\ (ev.op = "exp" /\ IsEC(ev.grp)) =>
         (OnCurve(ev.grp, ev.g) => (ev.res # RaisePt /\ OnCurve(ev.grp, ev.res)))

\* C15 witness: a point doubled (the tangent case, 2y inverted) into a third
\* point of the curve
C15_Witness ==
    /\ ev.op = "loi"
    /\ IsEC(ev.grp)
    /\ ev.grp.A # 0
    /\ ev.P # ev.grp.e
    /\ ev.Q = ev.P
    /\ ev.res # ev.grp.e
    /\ ev.res # ev.P
    /\ OnCurve(ev.grp, ev.res)


(***************************************************************************)
(* ECDSA on the curves whose generator has prime order.                    *)
(***************************************************************************)
ECDSACurves == {Curve17, Curve13}

\* the message hashes handed to ECDSA_sign and ECDSA_verif
Hashes(G) == (0..MaxHash) \cup {G.N + 1}

\* ECDSA_sign with k the value randint(1, N - 1) draws
ECDSA_sign(G, m, d, k) ==
    LET K == exp(G, G.G, k)
        t == K[1] % G.N
        i == PyPowInv(k, G.N)
        s == ((m + d * t) * i) % G.N
    IN  IF K = RaisePt \/ i = ValueError THEN RaisePt ELSE <<t, s>>

\* the message hashes a signature is verified against: all of [0, N-1] too
VerifHashes(G) == (0..(G.N - 1)) \cup Hashes(G)

\* ECDSA_verif leaving the hash out of R: s^-1 * G where the code has
\* (m * s^-1) * G
ECDSA_verif_hashIgnored(G, Q, m, sign) ==
    LET t == sign[1]
        s == sign[2]
        i == PyPowInv(s, G.N)
        R1 == exp(G, G.G, i)
        R2 == exp(G, Q, t * i)
        R == loi(G, R1, R2)
    IN  IF ~(t > 0 /\ t <= G.N - 1) \/ ~(s > 0 /\ s <= G.N - 1)
        THEN [ret |-> "False", inverses |-> 0, pointops |-> 0]
        ELSE IF i = ValueError
        THEN [ret |-> "raise", inverses |-> 1, pointops |-> 0]
        ELSE IF R = RaisePt
        THEN [ret |-> "raise", inverses |-> 2, pointops |-> 3]
        ELSE [ret |-> IF R[1] % G.N = t THEN "True" ELSE "False",
              inverses |-> 2, pointops |-> 3]

\* ECDSA_verif accepting t = 0 and s = 0: >= where the code has >
ECDSA_verif_zeroAccepted(G, Q, m, sign) ==
    LET t == sign[1]
        s == sign[2]
        i == PyPowInv(s, G.N)
        R1 == exp(G, G.G, m * i)
        R2 == exp(G, Q, t * i)
        R == loi(G, R1, R2)
    IN  IF ~(t >= 0 /\ t <= G.N - 1) \/ ~(s >= 0 /\ s <= G.N - 1)
        THEN [ret |-> "False", inverses |-> 0, pointops |-> 0]
        ELSE IF i = ValueError
        THEN [ret |-> "raise", inverses |-> 1, pointops |-> 0]
        ELSE IF R = RaisePt
        THEN [ret |-> "raise", inverses |-> 2, pointops |-> 3]
        ELSE [ret |-> IF R[1] % G.N = t THEN "True" ELSE "False",
              inverses |-> 2, pointops |-> 3]

\* ECDSA_verif: what it returns ("True", "False", or "raise" for an exception
\* leaving it), with the pow(s, -1, N) calls and the exp and loi calls made
ECDSA_verif(G, Q, m, sign) ==
    LET t == sign[1]
        s == sign[2]
        i == PyPowInv(s, G.N)
        R1 == exp(G, G.G, m * i)
        R2 == exp(G, Q, t * i)
        R == loi(G, R1, R2)
    IN  IF ~(t > 0 /\ t <= G.N - 1) \/ ~(s > 0 /\ s <= G.N - 1)
        THEN [ret |-> "False", inverses |-> 0, pointops |-> 0]
        ELSE IF i = ValueError
        THEN [ret |-> "raise", inverses |-> 1, pointops |-> 0]
        ELSE IF R = RaisePt
        THEN [ret |-> "raise", inverses |-> 2, pointops |-> 3]
        ELSE [ret |-> IF R[1] % G.N = t THEN "True" ELSE "False",
              inverses |-> 2, pointops |-> 3]

\* a caller signs hash m with private scalar d
ECDSASign ==
    /\ ecdsa.pc = "idle"
    /\ \E G \in ECDSACurves : \E d \in 1..(G.N - 1), m \in Hashes(G), k \in 1..(G.N - 1) :
         ecdsa' = [pc |-> "signed", grp |-> G, d |-> d, m |-> m, k |-> k,
                   sig |-> ECDSA_sign(G, m, d, k)]
    /\ UNCHANGED <<inst, dl, bs, call, ev>>

\* the signature just made is verified under the public key d*G, for hash m2
ECDSAVerifSigned ==
    /\ ecdsa.pc = "signed"
    /\ ecdsa.sig # RaisePt
    /\ \E m2 \in VerifHashes(ecdsa.grp) :
         LET Q == exp(ecdsa.grp, ecdsa.grp.G, ecdsa.d)
         IN  ecdsa' = [pc |-> "verified", grp |-> ecdsa.grp, d |-> ecdsa.d, m |-> ecdsa.m,
                       k |-> ecdsa.k, sig |-> ecdsa.sig, Q |-> Q, m2 |-> m2,
                       out |-> ECDSA_verif(ecdsa.grp, Q, m2, ecdsa.sig)]
    /\ UNCHANGED <<inst, dl, bs, call, ev>>

\* a caller verifies an arbitrary pair (t, s) under an arbitrary public point
ECDSAVerifAny ==
    /\ ecdsa.pc = "idle"
    /\ \E G \in ECDSACurves :
         \E Q \in PointsOf(G), m2 \in Hashes(G), t \in (-1)..(G.N + 1), s \in (-1)..(G.N + 1) :
           ecdsa' = [pc |-> "verified", grp |-> G, d |-> 0, m |-> 0, k |-> 0,
                     sig |-> <<t, s>>, Q |-> Q, m2 |-> m2,
                     out |-> ECDSA_verif(G, Q, m2, <<t, s>>)]
    /\ UNCHANGED <<inst, dl, bs, call, ev>>

NextECDSA ==
    \/ ECDSASign
    \/ ECDSAVerifSigned
    \/ ECDSAVerifAny

SpecECDSA == InitIdle /\ [][NextECDSA]_vars

InRange(G, v) == v >= 1 /\ v <= G.N - 1

\* C2: the signature ECDSA_sign(m, d) returns, for any d in [1, N-1], hash m
\* and drawn k, is accepted by ECDSA_verif under exp(G, d) for the same m.
C2_SignThenVerifyAccepts ==
    (ecdsa.pc = "verified" /\ ecdsa.d >= 1 /\ ecdsa.m2 = ecdsa.m)
    => ecdsa.out.ret = "True"

\* C3: every pair (t, s) ECDSA_sign returns has t and s in [1, N-1]; with
\* t = K.x mod N = 0 it returns no pair.
C3_SignatureInRange ==
    ecdsa.pc = "signed" =>
      /\ ecdsa.sig # RaisePt =>
           InRange(ecdsa.grp, ecdsa.sig[1]) /\ InRange(ecdsa.grp, ecdsa.sig[2])
      /\ exp(ecdsa.grp, ecdsa.grp.G, ecdsa.k)[1] % ecdsa.grp.N = 0 => ecdsa.sig = RaisePt

\* C4: ECDSA_verif returns False, with no exception, no modular inverse and
\* no point operation, whenever t or s is outside [1, N-1].
C4_OutOfRangeRejected ==
    (/\ ecdsa.pc = "verified"
     /\ ~(InRange(ecdsa.grp, ecdsa.sig[1]) /\ InRange(ecdsa.grp, ecdsa.sig[2])))
    => ecdsa.out = [ret |-> "False", inverses |-> 0, pointops |-> 0]

\* C4 witness: s = 0 with t in range, under a public key other than e, rejected
C4_Witness ==
    /\ ecdsa.pc = "verified"
    /\ ecdsa.sig[2] = 0
    /\ InRange(ecdsa.grp, ecdsa.sig[1])
    /\ ecdsa.Q # ecdsa.grp.e
    /\ ecdsa.out.ret = "False"
    /\ ecdsa.out.inverses = 0

\* the signature just verified was made by ECDSA_sign for hash m under d,
\* verifies for m, and was verified against another hash m2 of [0, N-1]
SignedThenVerifiedOther ==
    /\ ecdsa.pc = "verified"
    /\ ecdsa.d >= 1
    /\ ECDSA_verif(ecdsa.grp, ecdsa.Q, ecdsa.m, ecdsa.sig).ret = "True"
    /\ ecdsa.m2 \in 0..(ecdsa.grp.N - 1)
    /\ ecdsa.m2 # ecdsa.m

\* m2 is congruent modulo N to m or to -m - 2*d*t
SameOrTwinHash ==
    \/ (ecdsa.m2 - ecdsa.m) % ecdsa.grp.N = 0
    \/ (ecdsa.m2 + ecdsa.m + 2 * ecdsa.d * ecdsa.sig[1]) % ecdsa.grp.N = 0

\* C12 as stated: for G of prime order N and d in [1, N-1], a signature
\* (t, s) of ECDSA_sign(m, d) that verifies for m is rejected by
\* ECDSA_verif(d*G, m2, (t, s)) for every m2 in [0, N-1] other than m.
C12_OtherHashRejected ==
    SignedThenVerifiedOther => ecdsa.out.ret = "False"

\* C12 amended: such a signature is rejected for every m2 in [0, N-1] that
\* is congruent modulo N neither to m nor to -m - 2*d*t, and accepted for
\* the m2 congruent to one of the two; no exception leaves ECDSA_verif.
C12_OtherHashRejectedUnlessTwin ==
    SignedThenVerifiedOther =>
      /\ ecdsa.out.ret # "raise"
      /\ ecdsa.out.ret = "True" <=> SameOrTwinHash

\* C12 witness: under d = 7 on the curve with 19 points, a genuine signature
\* rejected for another hash
C12_Witness ==
    /\ SignedThenVerifiedOther
    /\ ecdsa.grp.N = 19
    /\ ecdsa.d = 7
    /\ ~SameOrTwinHash
    /\ ecdsa.out.ret = "False"
    /\ ecdsa.out.pointops = 3


(***************************************************************************)
(* cryptool/utils.py: gcd, bezout, inverse, chineseRemainder.              *)
(***************************************************************************)
RECURSIVE gcd(_, _)
gcd(a, b) == IF b = 0 THEN a ELSE gcd(b, a % b)

RECURSIVE bezout_loop(_, _, _, _, _, _)
\* the while of bezout
bezout_loop(a, b, u0, u1, v0, v1) ==
    IF b = 0 THEN <<a, u0, v0>>
    ELSE LET q == a \div b
             r == a % b
         IN  bezout_loop(b, r, u1, u0 - q * u1, v1, v0 - q * v1)

bezout(a, b) ==
    LET r == bezout_loop(a, b, 1, 0, 0, 1)
    IN  IF r[1] < 0 THEN <<-r[1], -r[2], -r[3]>> ELSE r

\* inverse: the gcd test only prints, the Bezout coefficient is returned
\* reduced modulo n
inverse(x, n) == IF n = 0 THEN ZeroDivisionError ELSE bezout(x, n)[2] % n

\* the coprimality test looking at neighbours only: j = i + 1 where the code
\* has every j in range(i + 1, len(numList))
_primalityList_adjacent(numList) ==
    \A i \in 1..(Len(numList) - 1) : gcd(numList[i], numList[i + 1]) = 1

_primalityList(numList) ==
    \A i \in 1..Len(numList) : \A j \in (i + 1)..Len(numList) :
        gcd(numList[i], numList[j]) = 1

RECURSIVE SeqProduct(_)
SeqProduct(sq) == IF sq = <<>> THEN 1 ELSE Head(sq) * SeqProduct(Tail(sq))

RECURSIVE crt_sum(_, _, _)
\* the for over zip(listRemainders, listModulos): x += i * ni * bi
crt_sum(rems, mods, N) ==
    IF rems = <<>> \/ mods = <<>> THEN 0
    ELSE LET ni == N \div Head(mods)
             bi == inverse(ni, Head(mods))
         IN  Head(rems) * ni * bi + crt_sum(Tail(rems), Tail(mods), N)

\* chineseRemainder; None when the lengths differ or the moduli share a factor
chineseRemainder(listRemainders, listModulos) ==
    IF Len(listRemainders) # Len(listModulos) THEN NoneVal
    ELSE IF ~_primalityList(listModulos) THEN NoneVal
    ELSE LET N == SeqProduct(listModulos)
         IN  crt_sum(listRemainders, listModulos, N) % N

(***************************************************************************)
(* Calls of inverse and chineseRemainder.                                  *)
(***************************************************************************)
RECURSIVE ListsUpTo(_, _)
\* the lists of at most n elements of S
ListsUpTo(S, n) ==
    IF n = 0 THEN {<<>>}
    ELSE LET shorter == ListsUpTo(S, n - 1)
         IN  shorter \cup {Append(l, a) : l \in {t \in shorter : Len(t) = n - 1}, a \in S}

\* a caller asks for the inverse of x modulo n
CallInverse ==
    /\ ev.op = "none"
    /\ \E x \in (-MaxMod)..MaxMod, n \in 0..MaxMod :
         ev' = [op |-> "inverse", x |-> x, n |-> n, res |-> inverse(x, n)]
    /\ UNCHANGED <<inst, dl, bs, call, ecdsa>>

\* a caller hands two lists to chineseRemainder
CallChineseRemainder ==
    /\ ev.op = "none"
    /\ \E rems \in ListsUpTo((-1)..MaxRem, MaxLen), mods \in ListsUpTo(1..MaxMod, MaxLen) :
         ev' = [op |-> "chineseRemainder", rems |-> rems, mods |-> mods,
                res |-> chineseRemainder(rems, mods)]
    /\ UNCHANGED <<inst, dl, bs, call, ecdsa>>

NextUtils ==
    \/ CallInverse
    \/ CallChineseRemainder

SpecUtils == InitIdle /\ [][NextUtils]_vars

\* x and n have no common divisor above 1
Coprime(x, n) == \A d \in 2..MaxMod : ~(x % d = 0 /\ n % d = 0)

\* an exception left the utility: no integer came back
UtilRaised == ev.res \in {ValueError, TypeError, ZeroDivisionError}

\* C11: inverse(x, n) fails, returning no integer, whenever gcd(x, n) != 1;
\* when gcd(x, n) = 1 and n > 1 it returns y in [0, n-1] with x*y mod n = 1.
C11_InverseFailsOnNonUnit ==
    ev.op = "inverse" =>
      /\ ~Coprime(ev.x, ev.n) => UtilRaised
      /\ (Coprime(ev.x, ev.n) /\ ev.n > 1) =>
           /\ ev.res \in 0..(ev.n - 1)
           /\ (ev.x * ev.res) % ev.n = 1

\* the moduli are pairwise coprime: no two of them share a divisor above 1
PairwiseCoprime(mods) ==
    \A i \in 1..Len(mods) : \A j \in 1..Len(mods) : i # j => Coprime(mods[i], mods[j])

\* x solves the congruences x mod m_i = r_i mod m_i
Solves(x, rems, mods) == \A i \in 1..Len(mods) : x % mods[i] = rems[i] % mods[i]

\* C14: for equal-length lists of remainders and pairwise-coprime positive
\* moduli, chineseRemainder returns the unique x in [0, prod(m_i)) with
\* x mod m_i = r_i mod m_i for every i; when the lengths differ or the moduli
\* are not pairwise coprime it returns no integer.
C14_ChineseRemainderUnique ==
    ev.op = "chineseRemainder" =>
      IF Len(ev.rems) = Len(ev.mods) /\ PairwiseCoprime(ev.mods)
      THEN /\ ev.res \in 0..(SeqProduct(ev.mods) - 1)
           /\ Solves(ev.res, ev.rems, ev.mods)
           /\ \A y \in 0..(SeqProduct(ev.mods) - 1) :
                Solves(y, ev.rems, ev.mods) => y = ev.res
      ELSE ev.res = NoneVal

\* C14 witness: three moduli above 1, remainders not all reduced, and a
\* result that is none of the remainders
C14_Witness ==
    /\ ev.op = "chineseRemainder"
    /\ ev.mods = <<3, 4, 5>>
    /\ ev.rems = <<-1, 1, 0>>
    /\ ev.res = 5

(***************************************************************************)
(* ZpMulWithOrder: Shanks, prime-power descent, Pohlig-Hellman.            *)
(***************************************************************************)
RECURSIVE Multiplicity(_, _)
Multiplicity(n, d) == IF n % d = 0 THEN 1 + Multiplicity(n \div d, d) ELSE 0

RECURSIVE FactorFrom(_, _)
FactorFrom(n, d) ==
    IF n <= 1 THEN <<>>
    ELSE IF n % d = 0
         THEN LET e == Multiplicity(n, d)
              IN  <<<<d, e>>>> \o FactorFrom(n \div IPow(d, e), d + 1)
         ELSE FactorFrom(n, d + 1)

\* factorint(n).items(): the pairs (prime, exponent), primes ascending
factorint(n) == FactorFrom(n, 2)

\* table[value] after the for over j in range(m): the last j with exp(g, j) = value
ShanksTable(G, g, m, value) ==
    LET js == {j \in 0..(m - 1) : exp(G, g, j) = value}
    IN  IF js = {} THEN NoneVal ELSE CHOOSE j \in js : \A j2 \in js : j2 <= j

RECURSIVE ShanksLoop(_, _, _, _, _, _)
\* for i in range(m): return on a table hit, else current = loi(current, g_inv_m)
ShanksLoop(G, g, m, g_inv_m, i, current) ==
    IF i >= m THEN NoneVal
    ELSE IF ShanksTable(G, g, m, current) # NoneVal
         THEN i * m + ShanksTable(G, g, m, current)
         ELSE ShanksLoop(G, g, m, g_inv_m, i + 1, loi(G, current, g_inv_m))

\* ShanksAlgorithm with exp(g, m) where the code has exp(g, N - m)
ShanksAlgorithm_forward(G, g, h) ==
    LET m == CeilSqrt(G.N)
    IN  ShanksLoop(G, g, m, exp(G, g, m), 0, h)

\* ZpMulWithOrder.ShanksAlgorithm
ShanksAlgorithm(G, g, h) ==
    LET m == CeilSqrt(G.N)
    IN  ShanksLoop(G, g, m, exp(G, g, G.N - m), 0, h)

\* DLinGroupofPrimePowerOrder up to its for: i = 0 and y
DLinGroupofPrimePowerOrder_enter(G, g, h, q, n) ==
    [grp |-> G, g |-> g, h |-> h, q |-> q, n |-> n,
     y |-> PyPow(g, PyPow(q, n - 1, G.N), G.p), j |-> 0, i |-> 0, raised |-> 0]

\* one pass of the for over j in range(n): the digit d_j and i += d_j * q^j;
\* raised names the exception that leaves the routine, 0 when there is none
DLinGroupofPrimePowerOrder_step(f) ==
    LET G == f.grp
        e_j == PyPow(f.q, f.n - f.j - 1, G.N)
        gi == ZpMult_inv(G, PyPow(f.g, f.i, G.p))
        h_j == PyPow(f.h * gi, e_j, G.p)
        d_j == ShanksAlgorithm(ZpMulWithOrder(G.p, f.q), f.y, h_j)
    IN  IF gi = ValueError THEN [f EXCEPT !.raised = ValueError]
        ELSE IF d_j = NoneVal THEN [f EXCEPT !.raised = TypeError]
        ELSE [f EXCEPT !.i = f.i + d_j * PyPow(f.q, f.j, G.N), !.j = f.j + 1]

\* pohligHellman's for body up to the call of DLinGroupofPrimePowerOrder
pohligHellman_enterFactor(G, g, h, f) ==
    LET qe == IPow(f[1], f[2])
        g_j == PyPow(g, G.N \div qe, G.p)
        h_j == PyPow(h, G.N \div qe, G.p)
    IN  DLinGroupofPrimePowerOrder_enter(ZpMulWithOrder(G.p, qe), g_j, h_j, f[1], f[2])

RECURSIVE pohligHellman_modulos(_)
\* modulos = [pow(p, e) for p, e in factors.items()]
pohligHellman_modulos(factors) ==
    IF factors = <<>> THEN <<>>
    ELSE <<IPow(Head(factors)[1], Head(factors)[2])>> \o pohligHellman_modulos(Tail(factors))

\* the end of pohligHellman: chineseRemainder(ijs, modulos) % N
pohligHellman_combine(G, factors, ijs) ==
    LET x == chineseRemainder(ijs, pohligHellman_modulos(factors))
    IN  IF x = NoneVal THEN TypeError ELSE x % G.N

NoSub == [j |-> 0, n |-> 0, raised |-> 0]

\* a caller solves h = g^x mod p in the subgroup of order N
CallPohligHellman ==
    /\ ev.op = "none"
    /\ \E p \in Primes(MaxPHP) : \E N \in Divisors(p - 1) :
         \E g \in 1..(p - 1), x \in 0..(N - 1) :
           ev' = [op |-> "pohligHellman", pc |-> "factor", grp |-> ZpMulWithOrder(p, N),
                  g |-> g, x |-> x, h |-> PyPow(g, x, p), factors |-> factorint(N),
                  ijs |-> <<>>, sub |-> NoSub, res |-> 0]
    /\ UNCHANGED <<inst, dl, bs, call, ecdsa>>

\* the next prime power: project g and h, enter the descent
PohligHellmanFactor ==
    /\ ev.op = "pohligHellman"
    /\ ev.pc = "factor"
    /\ Len(ev.ijs) < Len(ev.factors)
    /\ ev' = [ev EXCEPT !.pc = "digit",
                        !.sub = pohligHellman_enterFactor(ev.grp, ev.g, ev.h,
                                                          ev.factors[Len(ev.ijs) + 1])]
    /\ UNCHANGED <<inst, dl, bs, call, ecdsa>>

\* one digit of the descent, or its return into ijs, or its exception
PohligHellmanDigit ==
    /\ ev.op = "pohligHellman"
    /\ ev.pc = "digit"
    /\ IF ev.sub.raised # 0
       THEN ev' = [ev EXCEPT !.pc = "raise", !.res = ev.sub.raised]
       ELSE IF ev.sub.j >= ev.sub.n
       THEN ev' = [ev EXCEPT !.pc = "factor", !.ijs = Append(ev.ijs, ev.sub.i)]
       ELSE ev' = [ev EXCEPT !.sub = DLinGroupofPrimePowerOrder_step(ev.sub)]
    /\ UNCHANGED <<inst, dl, bs, call, ecdsa>>

\* all prime powers done: recombine and return
PohligHellmanCombine ==
    /\ ev.op = "pohligHellman"
    /\ ev.pc = "factor"
    /\ Len(ev.ijs) = Len(ev.factors)
    /\ LET r == pohligHellman_combine(ev.grp, ev.factors, ev.ijs)
       IN  ev' = [ev EXCEPT !.pc = IF r = TypeError THEN "raise" ELSE "return", !.res = r]
    /\ UNCHANGED <<inst, dl, bs, call, ecdsa>>

NextPohligHellman ==
    \/ CallPohligHellman
    \/ PohligHellmanFactor
    \/ PohligHellmanDigit
    \/ PohligHellmanCombine

SpecPohligHellman == InitIdle /\ [][NextPohligHellman]_vars

\* C1: for prime p, N dividing p - 1, g of order exactly N and x in [0, N),
\* pohligHellman(g, g^x mod p) on ZpMulWithOrder(p, N) returns x.
C1_PohligHellmanReturnsX ==
    (/\ ev.op = "pohligHellman"
     /\ OrderOf(ev.grp, ev.g) = ev.grp.N)
    => /\ ev.pc # "raise"
       /\ ev.pc = "return" => ev.res = ev.x

\* C1 witness: N = 18 = 2 * 3^2, a descent of two digits and two moduli for
\* chineseRemainder, x with both base-3 digits and the residue mod 2 non-zero
C1_Witness ==
    /\ ev.op = "pohligHellman"
    /\ ev.pc = "return"
    /\ ev.grp.N = 18
    /\ OrderOf(ev.grp, ev.g) = 18
    /\ ev.x = 17
    /\ ev.res = 17


====
